---- MODULE Spec2Model ----
(***************************************************************************)
(* A model of the MSA extraction pipeline: the text chunker                *)
(* (MSAParser._chunk_document and app.chunk_text_by_sections), the         *)
(* structured merger (MSAParser._deep_merge, _merge_chunk_results) and the *)
(* multi-chunk loop of MSAParser.parse.                                    *)
(*                                                                         *)
(* Texts are sequences of one-character strings.  Positions are the        *)
(* 0-based positions of the Python source; At and Slice translate them.    *)
(***************************************************************************)
EXTENDS Integers, Sequences, FiniteSets, TLC

VARIABLES
    pc,              \* position of the running operation
    text,            \* the text argument (chunker) / document_text (parse)
    max_chunk_size,  \* the max_chunk_size argument of the running operation
    chunks,          \* the list the chunker returned
    base,            \* _deep_merge's argument base
    update,          \* _deep_merge's argument update
    chunk_results,   \* _merge_chunk_results' argument
    merged,          \* what the merge returned (Raise when it raised)
    prompt_length,   \* len(self.base_prompt_template)
    effective_max_doc_size,
    i,               \* parse's loop counter (the chunk being processed)
    all_results,     \* parse's list of the chunk results extracted so far
    calls,           \* the collaborator calls issued so far, in order
    in_flight,       \* the collaborator calls that have not returned yet
    responses,       \* what the collaborator answered to each call, in order
    result,          \* what the operation returned, or the error it raised
    msa_data,        \* assess_msa's argument
    clauses,         \* what _extract_clauses returned, in insertion order
    clause_assessments,   \* the assessments of the tasks that have finished
    ground_truth_pairs,   \* evaluate_document's parsed ground-truth pairs
    generated_pairs,      \* evaluate_document's parsed generated pairs
    matched_ground_truth, \* evaluate_document's set of matched indices
    matches          \* for each result appended, the ground-truth index of
                     \* the pair it was evaluated against

chunkVars == <<text, max_chunk_size, chunks>>
mergeVars == <<base, update, chunk_results, merged>>
parseVars == <<prompt_length, effective_max_doc_size, i, all_results, calls,
               in_flight, responses, result>>
assessVars == <<msa_data, clauses, clause_assessments>>
evalVars == <<ground_truth_pairs, generated_pairs, matched_ground_truth, matches>>
vars == <<pc, text, max_chunk_size, chunks, base, update, chunk_results, merged,
          prompt_length, effective_max_doc_size, i, all_results, calls,
          in_flight, responses, result, msa_data, clauses, clause_assessments,
          ground_truth_pairs, generated_pairs, matched_ground_truth, matches>>

(***************************************************************************)
(* Bounds of the model.                                                    *)
(***************************************************************************)
MaxPieces == 3
MaxSize == 8
MaxListLen == 2
MaxChunks == 3
MaxLines == 4

Min(a, b) == IF a < b THEN a ELSE b
Max(a, b) == IF a > b THEN a ELSE b
SetMax(S) == CHOOSE x \in S : \A y \in S : y <= x
SetMin(S) == CHOOSE x \in S : \A y \in S : x <= y

(***************************************************************************)
(* Python string primitives.                                               *)
(***************************************************************************)
WhiteSpace == {" ", "\n", "\t", "\r", "\f"}
Digits == {"0", "1", "2", "3", "4", "5", "6", "7", "8", "9"}
UpperCase == {"A", "B", "C", "D", "E", "F", "G", "H", "I", "J", "K", "L", "M",
              "N", "O", "P", "Q", "R", "S", "T", "U", "V", "W", "X", "Y", "Z"}
LowerCase == {"a", "b", "c", "d", "e", "f", "g", "h", "i", "j", "k", "l", "m",
              "n", "o", "p", "q", "r", "s", "t", "u", "v", "w", "x", "y", "z"}

\* s[p]
At(s, p) == s[p + 1]

\* s[a:b]
Slice(s, a, b) == SubSeq(s, a + 1, Min(b, Len(s)))

\* s[a:]
SliceFromDropsOne(s, a) == SubSeq(s, a + 2, Len(s))
SliceFrom(s, a) == SubSeq(s, a + 1, Len(s))

RECURSIVE LStrip(_)
LStrip(s) ==
    IF s # <<>> /\ Head(s) \in WhiteSpace THEN LStrip(Tail(s)) ELSE s

RECURSIVE RStrip(_)
RStrip(s) ==
    IF s # <<>> /\ s[Len(s)] \in WhiteSpace
    THEN RStrip(SubSeq(s, 1, Len(s) - 1))
    ELSE s

\* s.strip()
Strip(s) == RStrip(LStrip(s))

\* s.rfind(sub, start, end)
RFind(s, sub, start, end) ==
    LET hits == {p \in start..(Min(end, Len(s)) - Len(sub)) :
                    SubSeq(s, p + 1, p + Len(sub)) = sub}
    IN  IF hits = {} THEN -1 ELSE SetMax(hits)

(***************************************************************************)
(* The section patterns, as re.finditer matches them.  Each XxxEnd(t, p)   *)
(* is the end of the match that starts at p, or -1 when none starts there. *)
(***************************************************************************)
\* the first position >= p whose character is not in S (len(t) when none)
RECURSIVE SkipSet(_, _, _)
SkipSet(t, p, S) ==
    IF p < Len(t) /\ At(t, p) \in S THEN SkipSet(t, p + 1, S) ELSE p

MatchLit(t, p, w) ==
    /\ p + Len(w) <= Len(t)
    /\ SubSeq(t, p + 1, p + Len(w)) = w

StartsLine(t, p) == p < Len(t) /\ At(t, p) = "\n"

\* \n\s*\d+\.\d+
NumberedEnd(t, p) ==
    IF ~StartsLine(t, p) THEN -1
    ELSE LET q  == SkipSet(t, p + 1, WhiteSpace)
             d1 == SkipSet(t, q, Digits)
             d2 == SkipSet(t, d1 + 1, Digits)
         IN  IF d1 > q /\ d1 < Len(t) /\ At(t, d1) = "." /\ d2 > d1 + 1
             THEN d2 ELSE -1

\* \n\s*\d+\([a-z]\)
LetteredEnd(t, p) ==
    IF ~StartsLine(t, p) THEN -1
    ELSE LET q  == SkipSet(t, p + 1, WhiteSpace)
             d1 == SkipSet(t, q, Digits)
         IN  IF /\ d1 > q
                /\ d1 + 2 < Len(t)
                /\ At(t, d1) = "("
                /\ At(t, d1 + 1) \in LowerCase
                /\ At(t, d1 + 2) = ")"
             THEN d1 + 3 ELSE -1

\* \n\s*<word>\s+\d+
WordEnd(t, p, word) ==
    IF ~StartsLine(t, p) THEN -1
    ELSE LET q == SkipSet(t, p + 1, WhiteSpace)
             r == q + Len(word)
             s == SkipSet(t, r, WhiteSpace)
             d == SkipSet(t, s, Digits)
         IN  IF MatchLit(t, q, word) /\ s > r /\ d > s THEN d ELSE -1

\* \n\s*[A-Z][A-Z\s]+\n
AllCapsEnd(t, p) ==
    IF ~StartsLine(t, p) THEN -1
    ELSE LET q == SkipSet(t, p + 1, WhiteSpace)
             e == SkipSet(t, q + 1, UpperCase \cup WhiteSpace)
             nl == {m \in (q + 2)..(e - 1) : At(t, m) = "\n"}
         IN  IF q < Len(t) /\ At(t, q) \in UpperCase /\ nl # {}
             THEN SetMax(nl) + 1 ELSE -1

SECTION == <<"S", "E", "C", "T", "I", "O", "N">>
Article == <<"A", "r", "t", "i", "c", "l", "e">>
Clause == <<"C", "l", "a", "u", "s", "e">>

PatternEnd(pat, t, p) ==
    CASE pat = "numbered" -> NumberedEnd(t, p)
      [] pat = "lettered" -> LetteredEnd(t, p)
      [] pat = "SECTION"  -> WordEnd(t, p, SECTION)
      [] pat = "Article"  -> WordEnd(t, p, Article)
      [] pat = "Clause"   -> WordEnd(t, p, Clause)
      [] pat = "allcaps"  -> AllCapsEnd(t, p)

\* [m.start() for m in re.finditer(pattern, text)], scanning from pos
RECURSIVE FindIter(_, _, _)
FindIter(pat, t, pos) ==
    IF pos >= Len(t) THEN <<>>
    ELSE IF PatternEnd(pat, t, pos) >= 0
         THEN <<pos>> \o FindIter(pat, t, PatternEnd(pat, t, pos))
         ELSE FindIter(pat, t, pos + 1)

section_patterns_msa ==
    <<"numbered", "lettered", "SECTION", "Article", "Clause", "allcaps">>
section_patterns_app ==
    <<"numbered", "lettered", "SECTION", "Article", "Clause">>

(***************************************************************************)
(* The chunker.                                                            *)
(***************************************************************************)
\* the inner loop over one pattern's matches: accept a match only when it
\* is more than max_chunk_size // 3 past the last accepted point
RECURSIVE AddMatches(_, _, _)
AddMatches(sp, ms, M) ==
    IF ms = <<>> THEN sp
    ELSE AddMatches(IF Head(ms) > sp[Len(sp)] + (M \div 3)
                    THEN Append(sp, Head(ms)) ELSE sp,
                    Tail(ms), M)

RECURSIVE CollectSplitPoints(_, _, _, _)
CollectSplitPoints(sp, pats, t, M) ==
    IF pats = <<>> THEN sp
    ELSE CollectSplitPoints(AddMatches(sp, FindIter(Head(pats), t, 0), M),
                            Tail(pats), t, M)

RECURSIVE SortedSeq(_)
SortedSeq(S) ==
    IF S = {} THEN <<>> ELSE <<SetMin(S)>> \o SortedSeq(S \ {SetMin(S)})

Range(s) == {s[n] : n \in 1..Len(s)}

\* sorted(set(split_points + [len(text)]))
SplitPoints(t, M, pats) ==
    SortedSeq(Range(CollectSplitPoints(<<0>>, pats, t, M)) \cup {Len(t)})

\* where the while loop cuts an oversized chunk
SplitAt(chunk, M) ==
    LET para_boundary ==
            RFind(chunk, <<"\n", "\n">>, M - ((4 * M) \div 10), M)
        line_break ==
            RFind(chunk, <<"\n">>, M - ((3 * M) \div 10), M)
    IN  IF 10 * para_boundary > 6 * M THEN para_boundary + 2
        ELSE IF 10 * line_break > 7 * M THEN line_break + 1
        ELSE M

\* the while loop on one span and the append of what is left of it
RECURSIVE Resplit(_, _)
Resplit(chunk, M) ==
    IF Len(chunk) > M
    THEN <<Strip(Slice(chunk, 0, SplitAt(chunk, M)))>>
         \o Resplit(Strip(SliceFrom(chunk, SplitAt(chunk, M))), M)
    ELSE IF chunk # <<>> THEN <<Strip(chunk)>> ELSE <<>>

\* the loop over the spans between consecutive split points
RECURSIVE SpanChunks(_, _, _, _)
SpanChunks(t, sp, n, M) ==
    IF n >= Len(sp) THEN <<>>
    ELSE Resplit(Slice(t, sp[n], sp[n + 1]), M) \o SpanChunks(t, sp, n + 1, M)

\* the forced split of one chunk in the final safety check
RECURSIVE ForceSplit(_, _)
ForceSplit(chunk, M) ==
    IF Len(chunk) > M
    THEN <<Strip(Slice(chunk, 0, M))>> \o ForceSplit(Strip(SliceFrom(chunk, M)), M)
    ELSE IF chunk # <<>> THEN <<Strip(chunk)>> ELSE <<>>

RECURSIVE FinalChunks(_, _)
FinalChunks(cs, M) ==
    IF cs = <<>> THEN <<>>
    ELSE (IF Len(Head(cs)) > M THEN ForceSplit(Head(cs), M) ELSE <<Head(cs)>>)
         \o FinalChunks(Tail(cs), M)

\* [c for c in final_chunks if c]
KeepAll(cs) == cs
RemoveEmpty(cs) == SelectSeq(cs, LAMBDA c : c # <<>>)

\* the guard of the early return
FitsOffByOne(t, M) == Len(t) <= M + 1
Fits(t, M) == Len(t) <= M

\* the early return's value
SingleChunkStripped(t) == <<Strip(t)>>
SingleChunk(t) == <<t>>

ChunkBySections(t, M, pats) ==
    IF Fits(t, M) THEN SingleChunk(t)
    ELSE RemoveEmpty(FinalChunks(SpanChunks(t, SplitPoints(t, M, pats), 1, M), M))

_chunk_document(t, M) == ChunkBySections(t, M, section_patterns_msa)
chunk_text_by_sections(t, M) == ChunkBySections(t, M, section_patterns_app)

(***************************************************************************)
(* The chunker's inputs: texts made of at most MaxPieces pieces.           *)
(***************************************************************************)
Pieces ==
    { <<"a", "b">>,
      <<" ">>,
      <<"\n">>,
      <<"\n", "\n">>,
      <<"\n", "1", ".", "1">>,
      <<"\n", "2", "(", "b", ")">>,
      <<"\n">> \o SECTION \o <<" ", "3">>,
      <<"\n">> \o Article \o <<" ", "4">>,
      <<"\n">> \o Clause \o <<" ", "5">>,
      <<"\n", "A", "B", "\n">> }

RECURSIVE TextsOf(_)
TextsOf(n) ==
    IF n = 0 THEN {<<>>}
    ELSE {p \o t : p \in Pieces, t \in TextsOf(n - 1)}

Texts == UNION {TextsOf(n) : n \in 0..MaxPieces}


(***************************************************************************)
(* JSON values, as json.loads builds them: None, str, int, bool, list and  *)
(* dict, each tagged with its kind.  A str is a sequence of characters.    *)
(* Raise stands for a call that raised instead of returning.               *)
(***************************************************************************)
Null == [kind |-> "null"]
Str(s) == [kind |-> "str", s |-> s]
Num(n) == [kind |-> "num", n |-> n]
Bool(b) == [kind |-> "bool", b |-> b]
List(items) == [kind |-> "list", items |-> items]
Dict(fields) == [kind |-> "dict", fields |-> fields]
Raise == [kind |-> "raise"]

EmptyDict == Dict([key \in {} |-> Null])
Dict1(key, value) == Dict([x \in {key} |-> value])

IsDict(v) == v.kind = "dict"
IsList(v) == v.kind = "list"
IsStr(v) == v.kind = "str"
Keys(d) == DOMAIN d.fields

\* bool(v)
Truthy(v) ==
    CASE v.kind = "null" -> FALSE
      [] v.kind = "str"  -> v.s # <<>>
      [] v.kind = "num"  -> v.n # 0
      [] v.kind = "bool" -> v.b
      [] v.kind = "list" -> v.items # <<>>
      [] v.kind = "dict" -> Keys(v) # {}

NumberOf(v) == IF v.kind = "bool" THEN (IF v.b THEN 1 ELSE 0) ELSE v.n

\* a == b: a bool equals the number 1 or 0, lists and dicts compare by items
RECURSIVE PyEq(_, _)
PyEq(a, b) ==
    IF a.kind \in {"num", "bool"} /\ b.kind \in {"num", "bool"}
    THEN NumberOf(a) = NumberOf(b)
    ELSE IF a.kind # b.kind THEN FALSE
    ELSE CASE a.kind = "list" ->
                /\ Len(a.items) = Len(b.items)
                /\ \A n \in 1..Len(a.items) : PyEq(a.items[n], b.items[n])
           [] a.kind = "dict" ->
                /\ Keys(a) = Keys(b)
                /\ \A key \in Keys(a) : PyEq(a.fields[key], b.fields[key])
           [] OTHER -> a = b

\* item in lst
PyIn(item, lst) == \E n \in 1..Len(lst) : PyEq(item, lst[n])

(***************************************************************************)
(* The structured merger.                                                  *)
(***************************************************************************)
\* result[key] + [item for item in value if item not in result[key]]
MergeListsKeepDuplicates(b, u) == List(b.items \o u.items)
MergeLists(b, u) ==
    List(b.items \o SelectSeq(u.items, LAMBDA item : ~PyIn(item, b.items)))

\* the last branch: update is a non-empty string; base decides
StringOver(b, u) ==
    IF ~Truthy(b) THEN u
    ELSE IF ~IsStr(b) THEN Raise          \* result[key].strip(): AttributeError
    ELSE IF Strip(b.s) = <<>> THEN u ELSE b

RECURSIVE DeepMerge(_, _)
RECURSIVE MergeValue(_, _)

\* the if/elif chain for a key that base and update both hold
MergeValue(b, u) ==
    IF b = Null /\ u # Null THEN u
    ELSE IF u = Null /\ b # Null THEN b
    ELSE IF IsDict(u) /\ IsDict(b) THEN DeepMerge(b, u)
    ELSE IF IsList(u) /\ IsList(b) THEN MergeLists(b, u)
    ELSE IF u # Null /\ (b = Null \/ b = Str(<<>>)) THEN u
    ELSE IF IsStr(u) /\ Strip(u.s) # <<>> THEN StringOver(b, u)
    ELSE b

\* _deep_merge(base, update) on two dicts
DeepMerge(b, u) ==
    LET out(key) ==
            IF key \notin Keys(u) THEN b.fields[key]
            ELSE IF key \notin Keys(b) THEN u.fields[key]
            ELSE MergeValue(b.fields[key], u.fields[key])
    IN  IF \E key \in Keys(b) \cup Keys(u) : out(key) = Raise
        THEN Raise
        ELSE Dict([key \in Keys(b) \cup Keys(u) |-> out(key)])

_deep_merge(b, u) == DeepMerge(b, u)

\* What the call leaves in its arguments.  result = base.copy() is a shallow
\* copy, so every nested value of result is base's own object until
\* result[key] is assigned; an assignment to result[key] binds the key in the
\* copy and leaves base's mapping alone.
\* result[key] + [...] builds a new list, so base's list stays as it was;
\* result[key].extend([...]) would have grown it in place
ListAfterExtend(b, u) == MergeLists(b, u)
ListAfterConcat(b, u) == b

RECURSIVE BaseAfter(_, _)
RECURSIVE BaseValueAfter(_, _)
RECURSIVE UpdateAfter(_, _)

\* base's value for a key both hold, after the if/elif chain
BaseValueAfter(b, u) ==
    IF b = Null /\ u # Null THEN b
    ELSE IF u = Null /\ b # Null THEN b
    ELSE IF IsDict(u) /\ IsDict(b) THEN BaseAfter(b, u)
    ELSE IF IsList(u) /\ IsList(b) THEN ListAfterConcat(b, u)
    ELSE b

\* base after _deep_merge(base, update)
BaseAfter(b, u) ==
    Dict([key \in Keys(b) |->
            IF key \in Keys(u)
            THEN BaseValueAfter(b.fields[key], u.fields[key])
            ELSE b.fields[key]])

\* update after _deep_merge(base, update): its values are read, bound into
\* result, or passed on as the update of the recursive call
UpdateAfter(b, u) ==
    Dict([key \in Keys(u) |->
            IF /\ key \in Keys(b)
               /\ IsDict(u.fields[key])
               /\ IsDict(b.fields[key])
            THEN UpdateAfter(b.fields[key], u.fields[key])
            ELSE u.fields[key]])

\* the loop of _merge_chunk_results over chunk_results[1:]
RECURSIVE MergeFrom(_, _, _)
MergeFrom(acc, results, n) ==
    IF n > Len(results) THEN acc
    ELSE IF _deep_merge(acc, results[n]) = Raise THEN Raise
    ELSE MergeFrom(_deep_merge(acc, results[n]), results, n + 1)

_merge_chunk_results(results) ==
    IF Len(results) = 1 THEN results[1]
    ELSE MergeFrom(results[1], results, 2)

(***************************************************************************)
(* The merger's inputs.                                                    *)
(***************************************************************************)
Scalars ==
    { Null, Str(<<>>), Str(<<" ">>), Str(<<"x">>), Str(<<"y">>),
      Num(0), Num(5), Bool(FALSE), Bool(TRUE) }

ListItems == { Num(1), Bool(TRUE), Dict1("j", Str(<<"x">>)) }

RECURSIVE SeqsOf(_, _)
SeqsOf(S, n) ==
    IF n = 0 THEN {<<>>}
    ELSE {<<>>} \cup {<<x>> \o s : x \in S, s \in SeqsOf(S, n - 1)}

Lists == {List(s) : s \in SeqsOf(ListItems, MaxListLen)}
InnerValues == Scalars \cup Lists
Objects == {EmptyDict} \cup {Dict1("j", v) : v \in InnerValues}
TopValues == InnerValues \cup Objects
SecondValues == {Null, Str(<<"y">>)}

\* records over the keys "k" and "m", each of them possibly absent
Records ==
    LET ks == {EmptyDict} \cup {Dict1("k", v) : v \in TopValues}
        ms == {EmptyDict} \cup {Dict1("m", v) : v \in SecondValues}
    IN  {DeepMerge(r, s) : r \in ks, s \in ms}

FoldValues ==
    Scalars \cup {List(s) : s \in SeqsOf(ListItems, 1)}
        \cup {EmptyDict} \cup {Dict1("j", v) : v \in Scalars}
FoldRecords == {EmptyDict} \cup {Dict1("k", v) : v \in FoldValues}

ChunkIdle == text = <<>> /\ max_chunk_size = 0 /\ chunks = <<>>
MergeIdle ==
    base = Null /\ update = Null /\ chunk_results = <<>> /\ merged = Null
ParseIdle ==
    /\ prompt_length = 0
    /\ effective_max_doc_size = 0
    /\ i = 0
    /\ all_results = <<>>
    /\ calls = <<>>
    /\ in_flight = {}
    /\ responses = <<>>
    /\ result = Null
AssessIdle == msa_data = Null /\ clauses = <<>> /\ clause_assessments = <<>>
EvalIdle ==
    /\ ground_truth_pairs = <<>>
    /\ generated_pairs = <<>>
    /\ matched_ground_truth = {}
    /\ matches = <<>>

(***************************************************************************)
(* The chunker applied to a text.                                          *)
(***************************************************************************)
InitChunk ==
    /\ pc = "chunk"
    /\ text \in Texts
    /\ max_chunk_size \in 1..MaxSize
    /\ chunks = <<>>
    /\ MergeIdle
    /\ ParseIdle
    /\ AssessIdle
    /\ EvalIdle

ChunkDocument ==
    /\ pc = "chunk"
    /\ chunks' = _chunk_document(text, max_chunk_size)
    /\ pc' = "chunked_msa"
    /\ UNCHANGED <<assessVars, evalVars>>
    /\ UNCHANGED <<text, max_chunk_size>>
    /\ UNCHANGED <<mergeVars, parseVars>>

ChunkTextBySections ==
    /\ pc = "chunk"
    /\ chunks' = chunk_text_by_sections(text, max_chunk_size)
    /\ pc' = "chunked_app"
    /\ UNCHANGED <<assessVars, evalVars>>
    /\ UNCHANGED <<text, max_chunk_size>>
    /\ UNCHANGED <<mergeVars, parseVars>>

NextChunk == ChunkDocument \/ ChunkTextBySections

SpecChunk == InitChunk /\ [][NextChunk]_vars

(***************************************************************************)
(* The merger applied to two records, and the fold over chunk results.     *)
(***************************************************************************)
InitMerge ==
    /\ pc = "merge"
    /\ base \in Records
    /\ update \in Records
    /\ chunk_results = <<>>
    /\ merged = Null
    /\ ChunkIdle
    /\ ParseIdle
    /\ AssessIdle
    /\ EvalIdle

DeepMergeCall ==
    /\ pc = "merge"
    /\ merged' = _deep_merge(base, update)
    /\ base' = BaseAfter(base, update)
    /\ update' = UpdateAfter(base, update)
    /\ pc' = "merged"
    /\ UNCHANGED <<assessVars, evalVars>>
    /\ UNCHANGED chunk_results
    /\ UNCHANGED <<chunkVars, parseVars>>

NextMerge == DeepMergeCall

SpecMerge == InitMerge /\ [][NextMerge]_vars

InitFold ==
    /\ pc = "fold"
    /\ chunk_results \in UNION {[1..n -> FoldRecords] : n \in 1..MaxChunks}
    /\ base = Null
    /\ update = Null
    /\ merged = Null
    /\ ChunkIdle
    /\ ParseIdle
    /\ AssessIdle
    /\ EvalIdle

MergeChunkResults ==
    /\ pc = "fold"
    /\ merged' = _merge_chunk_results(chunk_results)
    /\ pc' = "folded"
    /\ UNCHANGED <<assessVars, evalVars>>
    /\ UNCHANGED <<base, update, chunk_results>>
    /\ UNCHANGED <<chunkVars, parseVars>>

NextFold == MergeChunkResults

SpecFold == InitFold /\ [][NextFold]_vars

(***************************************************************************)
(* MSAParser.parse: the sizing policy, the single-request path and the     *)
(* multi-chunk path.  The collaborator (self.llm.invoke) answers each call *)
(* with an exception, with text that holds no parseable JSON, or with a    *)
(* JSON object.                                                            *)
(***************************************************************************)
safe_total_request_size == 50000

\* int(prompt_length * 1.5)
Overhead(pl) == (3 * pl) \div 2

\* max_chunk_size after the adjustment for a prompt that leaves no room
AdjustedMaxChunkSize(mcs, pl) ==
    IF mcs - Overhead(pl) <= 0 THEN Max(mcs, (5 * pl) \div 2) ELSE mcs

EffectiveMaxDocSize(mcs, pl) == AdjustedMaxChunkSize(mcs, pl) - Overhead(pl)

\* the test that selects the single-request path
FitsSingleRequest(t, mcs, pl) ==
    /\ Len(t) <= EffectiveMaxDocSize(mcs, pl)
    /\ pl + Len(t) <= safe_total_request_size

\* effective_max_doc_size as handed to _chunk_document
ChunkingDocSize(t, mcs, pl) ==
    IF pl + Len(t) > safe_total_request_size
    THEN Min(EffectiveMaxDocSize(mcs, pl), safe_total_request_size - pl)
    ELSE EffectiveMaxDocSize(mcs, pl)

\* _chunk_document's loop "while len(chunk) > max_chunk_size" never ends when
\* max_chunk_size is negative (every span), or zero and a span has text left
\* after trimming: split_at stays 0 and chunk[split_at:] is the chunk again
ChunkerHangs(t, M) ==
    \/ M < 0 /\ t # <<>>
    \/ M = 0 /\ Strip(t) # <<>>

\* what _chunk_document returns to parse when it returns
ChunkDocumentOf(t, M) ==
    IF M >= 1 THEN _chunk_document(t, M)
    ELSE IF Fits(t, M) THEN SingleChunk(t)
    ELSE <<>>

\* len(chunk_context) of generate_msa_extraction_prompt without the two
\* numbers it interpolates
ChunkContextChars == 554

\* len(str(n)) for the chunk numbers of the model
DigitCount(n) == IF n < 10 THEN 1 ELSE 2

\* len(extraction_prompt) in _parse_single_chunk: the chunk-aware prompt is
\* the base prompt with chunk_context inserted
PromptSent(call, pl) ==
    IF call.is_chunk /\ call.chunk_number # 0 /\ call.total_chunks # 0
    THEN pl + ChunkContextChars + DigitCount(call.chunk_number)
            + DigitCount(call.total_chunks)
    ELSE pl

\* the characters of prompt and document in the request of a call
RequestSize(call, pl) == PromptSent(call, pl) + Len(call.document)

Error(type) == [kind |-> "error", error |-> type]

\* _parse_single_chunk's result for a collaborator answer: llm.invoke's
\* exception is re-raised, _extract_json raises ValueError without JSON
ParseSingleChunk(response) ==
    IF response.outcome = "json" THEN response.data ELSE Raise

license_sentinels ==
    { <<"N", "o", "n", "e">>, <<"N", "/", "A">>, <<"n", "o", "n", "e">> }

HasDict(d, key) == key \in Keys(d) /\ IsDict(d.fields[key])

_fix_enum_values(data) ==
    IF /\ HasDict(data, "intellectual_property")
       /\ HasDict(data.fields["intellectual_property"], "pre_existing_ip")
       /\ LET pre == data.fields["intellectual_property"].fields["pre_existing_ip"]
          IN  /\ "license_to_customer" \in Keys(pre)
              /\ IsStr(pre.fields["license_to_customer"])
              /\ pre.fields["license_to_customer"].s \in license_sentinels
    THEN LET ip  == data.fields["intellectual_property"]
             pre == ip.fields["pre_existing_ip"]
             pre2 == Dict([pre.fields EXCEPT !["license_to_customer"] = Null])
             ip2  == Dict([ip.fields EXCEPT !["pre_existing_ip"] = pre2])
         IN  Dict([data.fields EXCEPT !["intellectual_property"] = ip2])
    ELSE data

\* "authorized_signatory" not in data.get(party, {}): TypeError unless the
\* value is a container or a string
SignatoryCheckRaises(data, party) ==
    /\ party \in Keys(data)
    /\ data.fields[party].kind \in {"null", "num", "bool"}

important_sections ==
    { "compliance_requirements", "liability_indemnification", "warranties",
      "dispute_resolution", "commercial_terms" }

\* section_data.get(...): AttributeError unless the section is a dict
SectionCheckRaises(data, key) ==
    /\ key \in Keys(data)
    /\ data.fields[key] # Null
    /\ \/ ~IsDict(data.fields[key])
       \/ /\ key = "commercial_terms"
          /\ "payment_terms" \in Keys(data.fields[key])
          /\ Truthy(data.fields[key].fields["payment_terms"])
          /\ ~IsDict(data.fields[key].fields["payment_terms"])

\* whether _validate_structure(data) raises instead of returning
ValidateStructureRaises(data) ==
    \/ SignatoryCheckRaises(data, "customer")
    \/ SignatoryCheckRaises(data, "provider")
    \/ \E key \in important_sections : SectionCheckRaises(data, key)

\* the tail both paths share: fix the enum values, validate, return
Finish(record) ==
    IF ValidateStructureRaises(_fix_enum_values(record))
    THEN Error("validation raised")
    ELSE _fix_enum_values(record)

\* what parse does once the loop over the chunks has ended
AfterLoop(results) ==
    IF results = <<>> THEN Error("ValueError: Failed to parse any chunks")
    ELSE IF _merge_chunk_results(results) = Raise THEN Error("merge raised")
    ELSE Finish(_merge_chunk_results(results))

(***************************************************************************)
(* parse's inputs and the collaborator's answers.                          *)
(***************************************************************************)
MaxParsePieces == 2

ParsePieces == { <<"a", "b">>, <<" ">>, <<"\n", "1", ".", "1">> }

RECURSIVE ParseTextsOf(_)
ParseTextsOf(n) ==
    IF n = 0 THEN {<<>>}
    ELSE {<<>>} \cup {p \o t : p \in ParsePieces, t \in ParseTextsOf(n - 1)}

ParseTexts == ParseTextsOf(MaxParsePieces)
PromptLengths == {1, 2}
RequestBudgets == {1, 4, 6}

ChunkRecords ==
    { Dict1("k", Num(0)),
      Dict1("k", Str(<<"x">>)),
      Dict1("k", Str(<<"y">>)),
      Dict1("k", Num(5)),
      Dict1("k", Null),
      Dict1("customer", Null),
      Dict1("intellectual_property",
            Dict1("pre_existing_ip",
                  Dict1("license_to_customer", Str(<<"N", "o", "n", "e">>)))) }

Failures == {"exception", "no_json"}

InitParse ==
    /\ pc = "parse"
    /\ text \in ParseTexts
    /\ max_chunk_size \in RequestBudgets
    /\ prompt_length \in PromptLengths
    /\ ~FitsSingleRequest(text, max_chunk_size, prompt_length) =>
            Len(_chunk_document(text,
                ChunkingDocSize(text, max_chunk_size, prompt_length))) <= MaxChunks
    /\ chunks = <<>>
    /\ effective_max_doc_size = 0
    /\ i = 0
    /\ all_results = <<>>
    /\ calls = <<>>
    /\ in_flight = {}
    /\ responses = <<>>
    /\ result = Null
    /\ MergeIdle
    /\ AssessIdle
    /\ EvalIdle

\* prompts and budgets around the absolute ceiling of the request size
CeilingPromptLengths ==
    { 1, safe_total_request_size - 4, safe_total_request_size,
      safe_total_request_size + 1 }

CeilingBudgets == { 1, (3 * safe_total_request_size) \div 2 }

InitParseNearCeiling ==
    /\ pc = "parse"
    /\ text \in ParseTexts
    /\ max_chunk_size \in CeilingBudgets
    /\ prompt_length \in CeilingPromptLengths
    /\ (/\ ~FitsSingleRequest(text, max_chunk_size, prompt_length)
        /\ ~ChunkerHangs(text,
                ChunkingDocSize(text, max_chunk_size, prompt_length))) =>
            Len(ChunkDocumentOf(text,
                ChunkingDocSize(text, max_chunk_size, prompt_length))) <= MaxChunks
    /\ chunks = <<>>
    /\ effective_max_doc_size = 0
    /\ i = 0
    /\ all_results = <<>>
    /\ calls = <<>>
    /\ in_flight = {}
    /\ responses = <<>>
    /\ result = Null
    /\ MergeIdle
    /\ AssessIdle
    /\ EvalIdle

\* lines 930-991: size the request, then take one of the two paths
ParseStart ==
    /\ pc = "parse"
    /\ max_chunk_size' = AdjustedMaxChunkSize(max_chunk_size, prompt_length)
    /\ IF FitsSingleRequest(text, max_chunk_size, prompt_length)
       THEN /\ effective_max_doc_size' =
                    EffectiveMaxDocSize(max_chunk_size, prompt_length)
            /\ chunks' = <<>>
            /\ i' = 0
            /\ pc' = "single"
       ELSE /\ effective_max_doc_size' =
                    ChunkingDocSize(text, max_chunk_size, prompt_length)
            /\ IF ChunkerHangs(text,
                        ChunkingDocSize(text, max_chunk_size, prompt_length))
               THEN /\ chunks' = <<>>
                    /\ i' = 0
                    /\ pc' = "hung"
               ELSE /\ chunks' = ChunkDocumentOf(text,
                            ChunkingDocSize(text, max_chunk_size, prompt_length))
                    /\ i' = 1
                    /\ pc' = "loop"
    /\ UNCHANGED <<assessVars, evalVars>>
    /\ UNCHANGED <<text, prompt_length, all_results, calls, in_flight,
                   responses, result, mergeVars>>

\* the call the loop body issues for chunk i
ChunkCall(n) ==
    [is_chunk |-> TRUE, chunk_number |-> n, total_chunks |-> Len(chunks),
     document |-> chunks[n]]

InvokeChunk ==
    /\ pc = "loop"
    /\ i <= Len(chunks)
    /\ calls' = Append(calls, ChunkCall(i))
    /\ in_flight' = in_flight \cup {Len(calls) + 1}
    /\ pc' = "chunk_call"
    /\ UNCHANGED <<assessVars, evalVars>>
    /\ UNCHANGED <<text, max_chunk_size, chunks, prompt_length,
                   effective_max_doc_size, i, all_results, responses, result,
                   mergeVars>>

\* where the loop goes after the except clause
AfterFailureAbort == "failed"
AfterFailure == "loop"

ChunkSucceeds ==
    /\ pc = "chunk_call"
    /\ \E r \in ChunkRecords :
          /\ responses' = Append(responses, [outcome |-> "json", data |-> r])
          /\ all_results' = Append(all_results,
                ParseSingleChunk([outcome |-> "json", data |-> r]))
    /\ in_flight' = in_flight \ {Len(calls)}
    /\ i' = i + 1
    /\ pc' = "loop"
    /\ UNCHANGED <<assessVars, evalVars>>
    /\ UNCHANGED <<text, max_chunk_size, chunks, prompt_length,
                   effective_max_doc_size, calls, result, mergeVars>>

ChunkFails ==
    /\ pc = "chunk_call"
    /\ \E f \in Failures :
          /\ ParseSingleChunk([outcome |-> f]) = Raise
          /\ responses' = Append(responses, [outcome |-> f])
    /\ in_flight' = in_flight \ {Len(calls)}
    /\ i' = i + 1
    /\ pc' = AfterFailure
    /\ result' = IF AfterFailure = "failed" THEN Error("chunk failed") ELSE result
    /\ UNCHANGED <<assessVars, evalVars>>
    /\ UNCHANGED <<text, max_chunk_size, chunks, prompt_length,
                   effective_max_doc_size, all_results, calls, mergeVars>>

\* lines 1015-1059: the loop has ended
FinishChunks ==
    /\ pc = "loop"
    /\ i > Len(chunks)
    /\ chunk_results' = all_results
    /\ merged' = IF all_results = <<>> THEN merged
                 ELSE _merge_chunk_results(all_results)
    /\ result' = AfterLoop(all_results)
    /\ pc' = IF AfterLoop(all_results).kind = "error" THEN "failed" ELSE "returned"
    /\ UNCHANGED <<assessVars, evalVars>>
    /\ UNCHANGED <<text, max_chunk_size, chunks, prompt_length,
                   effective_max_doc_size, i, all_results, calls, in_flight,
                   responses, base, update>>

SingleCall ==
    [is_chunk |-> FALSE, chunk_number |-> 0, total_chunks |-> 0,
     document |-> text]

InvokeSingle ==
    /\ pc = "single"
    /\ calls' = Append(calls, SingleCall)
    /\ in_flight' = in_flight \cup {Len(calls) + 1}
    /\ pc' = "single_call"
    /\ UNCHANGED <<assessVars, evalVars>>
    /\ UNCHANGED <<text, max_chunk_size, chunks, prompt_length,
                   effective_max_doc_size, i, all_results, responses, result,
                   mergeVars>>

SingleSucceeds ==
    /\ pc = "single_call"
    /\ \E r \in ChunkRecords :
          /\ responses' = Append(responses, [outcome |-> "json", data |-> r])
          /\ result' = Finish(ParseSingleChunk([outcome |-> "json", data |-> r]))
          /\ pc' = IF Finish(r).kind = "error" THEN "failed" ELSE "returned"
    /\ in_flight' = in_flight \ {Len(calls)}
    /\ UNCHANGED <<assessVars, evalVars>>
    /\ UNCHANGED <<text, max_chunk_size, chunks, prompt_length,
                   effective_max_doc_size, i, all_results, calls, mergeVars>>

SingleFails ==
    /\ pc = "single_call"
    /\ \E f \in Failures :
          /\ ParseSingleChunk([outcome |-> f]) = Raise
          /\ responses' = Append(responses, [outcome |-> f])
          /\ result' = Error(f)
    /\ in_flight' = in_flight \ {Len(calls)}
    /\ pc' = "failed"
    /\ UNCHANGED <<assessVars, evalVars>>
    /\ UNCHANGED <<text, max_chunk_size, chunks, prompt_length,
                   effective_max_doc_size, i, all_results, calls, mergeVars>>

NextParse ==
    \/ ParseStart
    \/ InvokeChunk
    \/ ChunkSucceeds
    \/ ChunkFails
    \/ FinishChunks
    \/ InvokeSingle
    \/ SingleSucceeds
    \/ SingleFails

SpecParse == InitParse /\ [][NextParse]_vars

SpecParseNearCeiling == InitParseNearCeiling /\ [][NextParse]_vars

(***************************************************************************)
(* RiskAssessor (src/risk_assessor.py): _extract_clauses, _assess_clause,  *)
(* _calculate_structure_completeness and assess_msa.                       *)
(*                                                                         *)
(* assess_msa hands one _assess_clause coroutine per extracted clause to   *)
(* asyncio.gather.  The event loop has one thread and runs the tasks in    *)
(* the order they were created; a task gives the thread back only at an    *)
(* await.  _assess_clause has no await: self.llm.invoke is an ordinary     *)
(* blocking call, so the thread stays inside the task until the            *)
(* collaborator has answered and the assessment is built.                  *)
(***************************************************************************)
\* clause_mapping, in the order of the dict literal
clause_mapping ==
    << <<"service_level_agreements", "warranties">>,
       <<"payment_terms", "commercial_terms">>,
       <<"termination_breach", "termination">>,
       <<"indemnification", "liability_indemnification">>,
       <<"liability_insurance", "insurance">> >>

\* the keys of CLAUSE_PROMPTS
CLAUSE_PROMPTS ==
    { "service_level_agreements", "payment_terms", "termination_breach",
      "indemnification", "liability_insurance" }

ClausePaths == { clause_mapping[n][2] : n \in 1..Len(clause_mapping) }

\* the content _extract_clauses reads: the record, or what its
\* MASTER_SERVICE_AGREEMENT wrapper (possibly doubled) holds
MsaContent(data) ==
    IF "MASTER_SERVICE_AGREEMENT" \in Keys(data)
    THEN LET inner == data.fields["MASTER_SERVICE_AGREEMENT"]
         IN  IF IsDict(inner) /\ "MASTER_SERVICE_AGREEMENT" \in Keys(inner)
             THEN inner.fields["MASTER_SERVICE_AGREEMENT"]
             ELSE inner
    ELSE data

\* the loop over clause_mapping: a key that is in the content gives an
\* entry ({} for null), a key that is not gives none
RECURSIVE ClausesFrom(_, _)
ClausesFrom(content, n) ==
    IF n > Len(clause_mapping) THEN <<>>
    ELSE (IF clause_mapping[n][2] \in Keys(content)
          THEN << [clause_name |-> clause_mapping[n][1],
                   clause_data |->
                      IF content.fields[clause_mapping[n][2]] = Null
                      THEN EmptyDict
                      ELSE content.fields[clause_mapping[n][2]]] >>
          ELSE <<>>)
         \o ClausesFrom(content, n + 1)

_extract_clauses(data) ==
    IF IsDict(MsaContent(data)) THEN ClausesFrom(MsaContent(data), 1) ELSE <<>>

\* not clause_data or clause_data == {}
ClauseEmpty(clause_data) == ~Truthy(clause_data) \/ clause_data = EmptyDict

\* the assessment synthesized for a clause without data
MissingAssessment(clause_name) ==
    [clause_name |-> clause_name, compliance_score |-> 0,
     risk_level |-> "HIGH", status |-> "missing"]

\* a failed call reported as a clause without data
ErrorAssessmentAsMissing(clause_name) ==
    [clause_name |-> clause_name, compliance_score |-> 0,
     risk_level |-> "HIGH", status |-> "missing"]

\* the except clause's assessment
ErrorAssessment(clause_name) ==
    [clause_name |-> clause_name, compliance_score |-> 50,
     risk_level |-> "MEDIUM", status |-> "error"]

\* a present clause that scored 0.0 is moved to 5.0
FloorScoreNone(clause_data, score) == score
FloorScore(clause_data, score) ==
    IF ~ClauseEmpty(clause_data) /\ score = 0 THEN 5 ELSE score

\* the assessment _assess_clause builds from the collaborator's answer
AssessmentOf(clause_name, clause_data, response) ==
    IF response.outcome # "json" THEN ErrorAssessment(clause_name)
    ELSE [clause_name |-> clause_name,
          compliance_score |->
              FloorScore(clause_data,
                         IF response.has_score THEN response.score ELSE 50),
          risk_level |->
              IF response.has_risk_level THEN response.risk_level ELSE "MEDIUM",
          status |-> response.status]

\* missing_count of _calculate_structure_completeness
RECURSIVE MissingCount(_)
MissingCount(assessments) ==
    IF assessments = <<>> THEN 0
    ELSE (IF /\ Head(assessments).compliance_score = 0
             /\ Head(assessments).status = "missing"
          THEN 1 ELSE 0)
         + MissingCount(Tail(assessments))

\* every expected clause counted as present
StructureCompletenessFull(assessments) == 100

TotalExpectedAsAssessed(assessments) == Len(assessments)
TotalExpected(assessments) == Cardinality(CLAUSE_PROMPTS)

\* (present_count / total_expected_clauses) * 100; the float product is the
\* exact value for every count from 0 to 5 of 5
StructureCompleteness(assessments) ==
    IF TotalExpected(assessments) > 0
    THEN ((Len(assessments) - MissingCount(assessments)) * 100)
            \div TotalExpected(assessments)
    ELSE IF Len(assessments) - MissingCount(assessments) > 0 THEN 100 ELSE 0

RECURSIVE TotalScore(_)
TotalScore(assessments) ==
    IF assessments = <<>> THEN 0
    ELSE Head(assessments).compliance_score + TotalScore(Tail(assessments))

\* overall_score = 0.6 * compliance_score + 0.4 * structure_completeness,
\* kept as the numerator over the denominator 10 * ScoreCount
ScoreCount(assessments) == IF assessments = <<>> THEN 1 ELSE Len(assessments)
OverallScoreNumerator(assessments) ==
    6 * (IF assessments = <<>> THEN 50 ELSE TotalScore(assessments))
    + 4 * StructureCompleteness(assessments) * ScoreCount(assessments)

\* overall_score >= threshold
OverallScoreAtLeast(assessments, threshold) ==
    OverallScoreNumerator(assessments)
        >= threshold * 10 * ScoreCount(assessments)

\* risk_scores.get(assessment.risk_level, 50)
risk_scores(risk_level) ==
    CASE risk_level = "CRITICAL" -> 0
      [] risk_level = "HIGH" -> 25
      [] risk_level = "MEDIUM" -> 50
      [] risk_level = "LOW" -> 75
      [] OTHER -> 50

\* max(..., default=50)
MaxRisk(assessments) ==
    IF assessments = <<>> THEN 50
    ELSE SetMax({ risk_scores(assessments[n].risk_level) :
                    n \in 1..Len(assessments) })

OverallRisk(assessments) ==
    IF MaxRisk(assessments) <= 25
    THEN (IF MaxRisk(assessments) = 0 THEN "CRITICAL" ELSE "HIGH")
    ELSE IF OverallScoreAtLeast(assessments, 75) THEN "LOW"
    ELSE IF OverallScoreAtLeast(assessments, 50) THEN "MEDIUM"
    ELSE "HIGH"

\* the RiskAssessmentResult assess_msa returns
RiskAssessmentResult(assessments) ==
    [overall_score_numerator |-> OverallScoreNumerator(assessments),
     overall_score_denominator |-> 10 * ScoreCount(assessments),
     overall_risk_level |-> OverallRisk(assessments),
     structure_completeness |-> StructureCompleteness(assessments),
     missing_clauses_count |-> MissingCount(assessments),
     clause_assessments |-> assessments]

(***************************************************************************)
(* The assessor's inputs and the collaborator's answers.                   *)
(***************************************************************************)
ClauseData == Dict1("j", Str(<<"x">>))
ClauseValues == { Null, EmptyDict, ClauseData }

PlainRecords ==
    UNION { { Dict(f) : f \in [K -> ClauseValues] } : K \in SUBSET ClausePaths }

Wrapped(content) == Dict1("MASTER_SERVICE_AGREEMENT", content)

FullRecord == Dict([k \in ClausePaths |-> ClauseData])

AssessRecords ==
    PlainRecords
    \cup { Wrapped(FullRecord), Wrapped(Wrapped(FullRecord)), Wrapped(Null),
           Wrapped(Dict1("insurance", Null)) }

JsonAnswer(has_score, score, has_risk_level, risk_level, status) ==
    [outcome |-> "json", has_score |-> has_score, score |-> score,
     has_risk_level |-> has_risk_level, risk_level |-> risk_level,
     status |-> status]

NoAnswer(outcome) ==
    [outcome |-> outcome, has_score |-> FALSE, score |-> 0,
     has_risk_level |-> FALSE, risk_level |-> "", status |-> ""]

AssessAnswers ==
    { NoAnswer("exception"),
      NoAnswer("no_json"),
      JsonAnswer(FALSE, 0, FALSE, "", ""),
      JsonAnswer(TRUE, 0, TRUE, "CRITICAL", "missing"),
      JsonAnswer(TRUE, 90, TRUE, "LOW", ""),
      JsonAnswer(TRUE, 90, TRUE, "HIGH", ""),
      JsonAnswer(TRUE, 90, TRUE, "CRITICAL", "") }

InitAssess ==
    /\ pc = "assess"
    /\ msa_data \in AssessRecords
    /\ clauses = <<>>
    /\ clause_assessments = <<>>
    /\ i = 0
    /\ calls = <<>>
    /\ in_flight = {}
    /\ responses = <<>>
    /\ result = Null
    /\ prompt_length = 0
    /\ effective_max_doc_size = 0
    /\ all_results = <<>>
    /\ ChunkIdle
    /\ MergeIdle
    /\ EvalIdle

\* lines 494-504: extract the clauses, create the tasks, await the gather
AssessMsa ==
    /\ pc = "assess"
    /\ clauses' = _extract_clauses(msa_data)
    /\ i' = 1
    /\ pc' = "gather"
    /\ UNCHANGED <<msa_data, clause_assessments, calls, in_flight, responses,
                   result, prompt_length, effective_max_doc_size, all_results>>
    /\ UNCHANGED <<chunkVars, mergeVars, evalVars>>

\* the event loop runs the next task; its clause has no data, so the task
\* ends at once with the synthesized assessment
AssessMissingClause ==
    /\ pc = "gather"
    /\ i <= Len(clauses)
    /\ ClauseEmpty(clauses[i].clause_data)
    /\ clause_assessments' =
            Append(clause_assessments, MissingAssessment(clauses[i].clause_name))
    /\ i' = i + 1
    /\ UNCHANGED <<pc, msa_data, clauses, calls, in_flight, responses, result,
                   prompt_length, effective_max_doc_size, all_results>>
    /\ UNCHANGED <<chunkVars, mergeVars, evalVars>>

\* the event loop runs the next task up to self.llm.invoke(prompt), where
\* the thread blocks
InvokeClause ==
    /\ pc = "gather"
    /\ i <= Len(clauses)
    /\ ~ClauseEmpty(clauses[i].clause_data)
    /\ calls' = Append(calls, clauses[i])
    /\ in_flight' = in_flight \cup {Len(calls) + 1}
    /\ pc' = "invoke"
    /\ UNCHANGED <<msa_data, clauses, clause_assessments, i, responses, result,
                   prompt_length, effective_max_doc_size, all_results>>
    /\ UNCHANGED <<chunkVars, mergeVars, evalVars>>

\* the collaborator answers (or raises) and the task ends with its assessment
ClauseAnswered ==
    /\ pc = "invoke"
    /\ \E r \in AssessAnswers :
          /\ responses' = Append(responses, r)
          /\ clause_assessments' =
                Append(clause_assessments,
                       AssessmentOf(clauses[i].clause_name,
                                    clauses[i].clause_data, r))
    /\ in_flight' = in_flight \ {Len(calls)}
    /\ i' = i + 1
    /\ pc' = "gather"
    /\ UNCHANGED <<msa_data, clauses, calls, result, prompt_length,
                   effective_max_doc_size, all_results>>
    /\ UNCHANGED <<chunkVars, mergeVars, evalVars>>

\* lines 506-564: every task has ended, the gather returns, aggregate
Aggregate ==
    /\ pc = "gather"
    /\ i > Len(clauses)
    /\ result' = RiskAssessmentResult(clause_assessments)
    /\ pc' = "assessed"
    /\ UNCHANGED <<msa_data, clauses, clause_assessments, i, calls, in_flight,
                   responses, prompt_length, effective_max_doc_size,
                   all_results>>
    /\ UNCHANGED <<chunkVars, mergeVars, evalVars>>

NextAssess ==
    \/ AssessMsa
    \/ AssessMissingClause
    \/ InvokeClause
    \/ ClauseAnswered
    \/ Aggregate

SpecAssess == InitAssess /\ [][NextAssess]_vars

(***************************************************************************)
(* The assessor under every kind of answer: scores outside 0..100, the     *)
(* top score, and the ways an answer can fail inside the try block.        *)
(***************************************************************************)
\* json.loads raises; float("high") raises ValueError
FailedAnswers ==
    { NoAnswer("exception"), NoAnswer("no_json"), NoAnswer("invalid_json"),
      NoAnswer("wrong_type") }

ScoredAnswers ==
    { JsonAnswer(TRUE, 0 - 5, TRUE, "LOW", ""),
      JsonAnswer(TRUE, 0, TRUE, "CRITICAL", ""),
      JsonAnswer(TRUE, 50, TRUE, "MEDIUM", ""),
      JsonAnswer(TRUE, 100, TRUE, "LOW", ""),
      JsonAnswer(TRUE, 150, TRUE, "LOW", "") }

AnyAnswers == FailedAnswers \cup ScoredAnswers

\* records over three of the five clause fields
ThreeClausePaths == { "warranties", "commercial_terms", "insurance" }
ThreeClauseRecords ==
    UNION { { Dict(f) : f \in [K -> ClauseValues] } :
            K \in SUBSET ThreeClausePaths }

InitAssessAnyAnswer ==
    /\ pc = "assess"
    /\ msa_data \in ThreeClauseRecords
    /\ clauses = <<>>
    /\ clause_assessments = <<>>
    /\ i = 0
    /\ calls = <<>>
    /\ in_flight = {}
    /\ responses = <<>>
    /\ result = Null
    /\ prompt_length = 0
    /\ effective_max_doc_size = 0
    /\ all_results = <<>>
    /\ ChunkIdle
    /\ MergeIdle
    /\ EvalIdle

\* the collaborator answers anything at all and the task ends
ClauseAnsweredAnything ==
    /\ pc = "invoke"
    /\ \E r \in AnyAnswers :
          /\ responses' = Append(responses, r)
          /\ clause_assessments' =
                Append(clause_assessments,
                       AssessmentOf(clauses[i].clause_name,
                                    clauses[i].clause_data, r))
    /\ in_flight' = in_flight \ {Len(calls)}
    /\ i' = i + 1
    /\ pc' = "gather"
    /\ UNCHANGED <<msa_data, clauses, calls, result, prompt_length,
                   effective_max_doc_size, all_results>>
    /\ UNCHANGED <<chunkVars, mergeVars, evalVars>>

NextAssessAnyAnswer ==
    \/ AssessMsa
    \/ AssessMissingClause
    \/ InvokeClause
    \/ ClauseAnsweredAnything
    \/ Aggregate

SpecAssessAnyAnswer == InitAssessAnyAnswer /\ [][NextAssessAnyAnswer]_vars

(***************************************************************************)
(* Evaluator.evaluate_document (src/evaluator.py): the greedy matching of  *)
(* generated pairs to ground-truth pairs by the keyword similarity of      *)
(* their questions.  A text is the sequence of its lowercase words.        *)
(***************************************************************************)
MaxGroundTruth == 2
MaxGenerated == 3

stopwords ==
    { "the", "a", "an", "and", "or", "but", "in", "on", "at", "to", "for",
      "of", "with", "by", "from", "as", "is", "was", "are", "were", "be",
      "been", "being", "have", "has", "had", "do", "does", "did", "will",
      "would", "should", "could", "may", "might", "must", "can", "this",
      "that", "these", "those", "it", "its", "they", "them", "their",
      "there", "then", "than", "when", "where", "what", "which", "who",
      "whom", "whose", "why", "how", "all", "each", "every", "some", "any",
      "no", "not", "only", "just", "also", "more", "most", "other", "such",
      "same", "very", "much", "many", "few", "little", "own", "shall" }

min_length == 4

\* KeywordScorer.extract_keywords: the words of at least min_length letters
\* that are not stopwords
extract_keywords(words) ==
    { words[n] : n \in { m \in 1..Len(words) :
                           /\ Len(words[m]) >= min_length
                           /\ words[m] \notin stopwords } }

\* "missing" when exactly one keyword set is empty: list(keywords1 | keywords2)
MissingDifference(keywords1, keywords2) == keywords1 \ keywords2
MissingOneEmpty(keywords1, keywords2) == keywords1 \cup keywords2

\* KeywordScorer.score_by_keywords: the score as a fraction, and the matched
\* and missing keywords as sets
ScoreOfKeywords(keywords1, keywords2) ==
    IF keywords1 = {} /\ keywords2 = {}
    THEN [keyword_score |-> <<1, 1>>, matched_keywords |-> {},
          missing_keywords |-> {}]
    ELSE IF keywords1 = {} \/ keywords2 = {}
    THEN [keyword_score |-> <<0, 1>>, matched_keywords |-> {},
          missing_keywords |-> MissingOneEmpty(keywords1, keywords2)]
    ELSE [keyword_score |-> << Cardinality(keywords1 \cap keywords2),
                               Cardinality(keywords1 \cup keywords2) >>,
          matched_keywords |-> keywords1 \cap keywords2,
          missing_keywords |-> keywords1 \ keywords2]

score_by_keywords(answer1, answer2) ==
    ScoreOfKeywords(extract_keywords(answer1), extract_keywords(answer2))

\* a in b for two texts
Contains(b, a) ==
    \E start \in 0..(Len(b) - Len(a)) :
        \A n \in 1..Len(a) : b[start + n] = a[n]

\* the similarity of two questions as a fraction <<numerator, denominator>>:
\* the Jaccard index of the keyword sets, or the containment fallback
Similarity(gen_question, gt_question) ==
    IF extract_keywords(gen_question) # {} /\ extract_keywords(gt_question) # {}
    THEN << Cardinality(extract_keywords(gen_question)
                            \cap extract_keywords(gt_question)),
            Cardinality(extract_keywords(gen_question)
                            \cup extract_keywords(gt_question)) >>
    ELSE IF Contains(gt_question, gen_question) \/ Contains(gen_question, gt_question)
         THEN <<1, 2>>
         ELSE <<0, 1>>

\* x > y for two fractions
Greater(x, y) == x[1] * y[2] > y[1] * x[2]

\* the inner loop from position idx (0-based) on: best is the position of
\* best_match (-1 for None) and sim is best_similarity
RECURSIVE BestFrom(_, _, _, _, _, _)
BestFrom(gen_pair, gt_pairs, matched, idx, best, sim) ==
    IF idx >= Len(gt_pairs) THEN [best_match |-> best, best_similarity |-> sim]
    ELSE IF idx \in matched
         THEN BestFrom(gen_pair, gt_pairs, matched, idx + 1, best, sim)
    ELSE IF Greater(Similarity(gen_pair.question, gt_pairs[idx + 1].question), sim)
         THEN BestFrom(gen_pair, gt_pairs, matched, idx + 1, idx,
                       Similarity(gen_pair.question, gt_pairs[idx + 1].question))
    ELSE BestFrom(gen_pair, gt_pairs, matched, idx + 1, best, sim)

BestMatch(gen_pair, gt_pairs, matched) ==
    BestFrom(gen_pair, gt_pairs, matched, 0, -1, <<0, 1>>)

\* best_match and best_similarity >= 0.3
AcceptedFromThreshold(best) ==
    best.best_match # -1 /\ ~Greater(<<3, 10>>, best.best_similarity)

\* best_match and best_similarity > 0.3
Accepted(best) ==
    best.best_match # -1 /\ Greater(best.best_similarity, <<3, 10>>)

\* ground_truth_pairs.index(best_match): the first position that holds a
\* pair equal to best_match (QAPair is a dataclass: equal fields, equal pairs)
IndexOf(gt_pairs, pos) ==
    SetMin({ k \in 0..(Len(gt_pairs) - 1) : gt_pairs[k + 1] = gt_pairs[pos + 1] })

\* the summary evaluate_document returns
EvaluationSummary(gt_pairs, gen_pairs, matched, results) ==
    [total_ground_truth_pairs |-> Len(gt_pairs),
     total_generated_pairs |-> Len(gen_pairs),
     matched_pairs |-> Len(results),
     match_rate |-> IF Len(gt_pairs) > 0 THEN <<Len(results), Len(gt_pairs)>>
                    ELSE <<0, 1>>,
     unmatched_ground_truth |-> Len(gt_pairs) - Cardinality(matched),
     unmatched_generated |-> Len(gen_pairs) - Len(results)]

(***************************************************************************)
(* The evaluator's inputs and the judge's scores.                          *)
(***************************************************************************)
QAPair(question, answer, section) ==
    [question |-> question, answer |-> answer, section |-> section]

QAPairs ==
    { QAPair(<<"payment", "terms">>, <<"net", "thirty">>, "SECTION 1"),
      QAPair(<<"payment", "terms", "late", "fees">>, <<"net", "sixty">>, "SECTION 1"),
      QAPair(<<"what", "is", "it">>, <<"net", "thirty">>, "SECTION 2"),
      QAPair(<<"payment", "liability", "insurance", "coverage">>,
             <<"capped">>, "SECTION 2") }

\* the EvaluationResult of evaluate_qa_pair for the generated pair at gen
\* and the ground-truth pair at gt (0-based)
evaluate_qa_pair(gen, gt, llm_score) ==
    [generated |-> gen,
     ground_truth |-> gt,
     llm_score |-> llm_score,
     keyword_score |->
        score_by_keywords(ground_truth_pairs[gt + 1].answer,
                          generated_pairs[gen + 1].answer).keyword_score,
     matched_keywords |->
        score_by_keywords(ground_truth_pairs[gt + 1].answer,
                          generated_pairs[gen + 1].answer).matched_keywords,
     missing_keywords |->
        score_by_keywords(ground_truth_pairs[gt + 1].answer,
                          generated_pairs[gen + 1].answer).missing_keywords]

RECURSIVE PairListsOf(_)
PairListsOf(n) ==
    IF n = 0 THEN {<<>>}
    ELSE {<<>>} \cup { <<p>> \o l : p \in QAPairs, l \in PairListsOf(n - 1) }

\* LLMJudge.evaluate's score in hundredths: the judge's own score, or the
\* 0.5 it falls back to when the call or the parsing fails
JudgeScores == { 50, 100 }

InitEvaluate ==
    /\ pc = "match"
    /\ ground_truth_pairs \in PairListsOf(MaxGroundTruth)
    /\ generated_pairs \in PairListsOf(MaxGenerated)
    /\ matched_ground_truth = {}
    /\ matches = <<>>
    /\ i = 1
    /\ result = Null
    /\ prompt_length = 0
    /\ effective_max_doc_size = 0
    /\ all_results = <<>>
    /\ calls = <<>>
    /\ in_flight = {}
    /\ responses = <<>>
    /\ ChunkIdle
    /\ MergeIdle
    /\ AssessIdle

\* one turn of the loop over generated_pairs: the best ground-truth pair is
\* accepted, evaluated and recorded
MatchAccepted ==
    /\ pc = "match"
    /\ i <= Len(generated_pairs)
    /\ Accepted(BestMatch(generated_pairs[i], ground_truth_pairs,
                          matched_ground_truth))
    /\ \E llm_score \in JudgeScores :
          matches' = Append(matches,
              evaluate_qa_pair(i - 1,
                               BestMatch(generated_pairs[i], ground_truth_pairs,
                                         matched_ground_truth).best_match,
                               llm_score))
    /\ matched_ground_truth' = matched_ground_truth \cup
          { IndexOf(ground_truth_pairs,
                    BestMatch(generated_pairs[i], ground_truth_pairs,
                              matched_ground_truth).best_match) }
    /\ i' = i + 1
    /\ UNCHANGED <<pc, ground_truth_pairs, generated_pairs, result,
                   prompt_length, effective_max_doc_size, all_results, calls,
                   in_flight, responses>>
    /\ UNCHANGED <<chunkVars, mergeVars, assessVars>>

\* one turn of the loop: no ground-truth pair is similar enough
MatchRejected ==
    /\ pc = "match"
    /\ i <= Len(generated_pairs)
    /\ ~Accepted(BestMatch(generated_pairs[i], ground_truth_pairs,
                           matched_ground_truth))
    /\ i' = i + 1
    /\ UNCHANGED <<pc, ground_truth_pairs, generated_pairs,
                   matched_ground_truth, matches, result, prompt_length,
                   effective_max_doc_size, all_results, calls, in_flight,
                   responses>>
    /\ UNCHANGED <<chunkVars, mergeVars, assessVars>>

\* the loop has ended: the summary is returned
Summarize ==
    /\ pc = "match"
    /\ i > Len(generated_pairs)
    /\ result' = EvaluationSummary(ground_truth_pairs, generated_pairs,
                                   matched_ground_truth, matches)
    /\ pc' = "evaluated"
    /\ UNCHANGED <<ground_truth_pairs, generated_pairs, matched_ground_truth,
                   matches, i, prompt_length, effective_max_doc_size,
                   all_results, calls, in_flight, responses>>
    /\ UNCHANGED <<chunkVars, mergeVars, assessVars>>

NextEvaluate ==
    \/ MatchAccepted
    \/ MatchRejected
    \/ Summarize

SpecEvaluate == InitEvaluate /\ [][NextEvaluate]_vars

(***************************************************************************)
(* QAParser.parse_markdown on the lines of a markdown document.            *)
(***************************************************************************)
\* a line after strip(): a '## SECTION ...' header with the header's text
\* after '##', a 'Q<n>: ...' or 'A<n>: ...' line with the text after the
\* colon, or any other line
SectionLine(name) == [kind |-> "section", content |-> name]
QuestionLine(question) == [kind |-> "question", content |-> question]
AnswerLine(answer) == [kind |-> "answer", content |-> answer]
OtherLine == [kind |-> "other", content |-> ""]

\* current_section = None
NoSection == "None"

\* the while loop from lines[idx] on (1-based)
RECURSIVE ParseFrom(_, _, _, _)
ParseFrom(lines, idx, current_section, qa_pairs) ==
    IF idx > Len(lines) THEN qa_pairs
    ELSE IF lines[idx].kind = "section"
         THEN ParseFrom(lines, idx + 1, lines[idx].content, qa_pairs)
    ELSE IF lines[idx].kind = "question"
         THEN IF idx + 1 <= Len(lines) /\ lines[idx + 1].kind = "answer"
              THEN ParseFrom(lines, idx + 2, current_section,
                             Append(qa_pairs,
                                    QAPair(lines[idx].content,
                                           lines[idx + 1].content,
                                           current_section)))
              ELSE ParseFrom(lines, idx + 2, current_section, qa_pairs)
    ELSE ParseFrom(lines, idx + 1, current_section, qa_pairs)

parse_markdown(lines) == ParseFrom(lines, 1, NoSection, <<>>)

MarkdownLines ==
    { SectionLine("SECTION 1"), SectionLine("SECTION 2"),
      QuestionLine(<<"payment", "terms">>), QuestionLine(<<"late", "fees">>),
      AnswerLine(<<"net", "thirty">>), OtherLine }

\* text holds the lines of content; the pairs go to ground_truth_pairs, as
\* in evaluate_document
InitParseMarkdown ==
    /\ pc = "parse_markdown"
    /\ text \in UNION { [1..n -> MarkdownLines] : n \in 0..MaxLines }
    /\ max_chunk_size = 0
    /\ chunks = <<>>
    /\ i = 0
    /\ result = Null
    /\ prompt_length = 0
    /\ effective_max_doc_size = 0
    /\ all_results = <<>>
    /\ calls = <<>>
    /\ in_flight = {}
    /\ responses = <<>>
    /\ MergeIdle
    /\ AssessIdle
    /\ EvalIdle

ParseMarkdown ==
    /\ pc = "parse_markdown"
    /\ ground_truth_pairs' = parse_markdown(text)
    /\ pc' = "parsed_markdown"
    /\ UNCHANGED <<generated_pairs, matched_ground_truth, matches, i, result,
                   prompt_length, effective_max_doc_size, all_results, calls,
                   in_flight, responses>>
    /\ UNCHANGED <<chunkVars, mergeVars, assessVars>>

NextParseMarkdown == ParseMarkdown

SpecParseMarkdown == InitParseMarkdown /\ [][NextParseMarkdown]_vars

(***************************************************************************)
(* The evaluator on two ground-truth and two generated pairs, with         *)
(* questions at a similarity of exactly 0.3 and answers without keywords.  *)
(***************************************************************************)
LongGroundTruthQuestion ==
    <<"payment", "terms", "late", "termination", "liability", "insurance",
      "coverage">>
LongGeneratedQuestion ==
    <<"payment", "terms", "late", "fees", "notice", "period">>

ExamplePairs ==
    { QAPair(LongGroundTruthQuestion, <<"net", "thirty">>, "SECTION 1"),
      QAPair(LongGeneratedQuestion, <<"net">>, "SECTION 1"),
      QAPair(<<"warranty">>, <<"one", "year", "warranty">>, "SECTION 2"),
      QAPair(<<"warranty", "period">>, <<"net">>, "SECTION 2"),
      QAPair(<<"warranty", "period">>, <<"two", "year", "period">>, "SECTION 2"),
      QAPair(<<"period">>, <<"year", "limit">>, "SECTION 2") }

InitEvaluateExample ==
    /\ pc = "match"
    /\ ground_truth_pairs \in [1..2 -> ExamplePairs]
    /\ generated_pairs \in [1..2 -> ExamplePairs]
    /\ matched_ground_truth = {}
    /\ matches = <<>>
    /\ i = 1
    /\ result = Null
    /\ prompt_length = 0
    /\ effective_max_doc_size = 0
    /\ all_results = <<>>
    /\ calls = <<>>
    /\ in_flight = {}
    /\ responses = <<>>
    /\ ChunkIdle
    /\ MergeIdle
    /\ AssessIdle

SpecEvaluateExample == InitEvaluateExample /\ [][NextEvaluate]_vars

(***************************************************************************)
(* Properties of the chunker (SpecChunk).                                  *)
(***************************************************************************)
ChunkDone == pc \in {"chunked_msa", "chunked_app"}

RECURSIVE Concat(_)
Concat(cs) == IF cs = <<>> THEN <<>> ELSE Head(cs) \o Concat(Tail(cs))

NoWhiteSpace(s) == SelectSeq(s, LAMBDA c : c \notin WhiteSpace)

\* C1: every chunk that _chunk_document or chunk_text_by_sections returns
\* is at most max_chunk_size characters long.
C1_ChunkSizeBound ==
    ChunkDone => \A n \in 1..Len(chunks) : Len(chunks[n]) <= max_chunk_size

\* a text split at a section boundary, one of its chunks exactly full
C1_Witness ==
    /\ pc = "chunked_msa"
    /\ Len(text) > max_chunk_size
    /\ Len(SplitPoints(text, max_chunk_size, section_patterns_msa)) >= 3
    /\ Len(chunks) >= 3
    /\ \E n \in 1..Len(chunks) : Len(chunks[n]) = max_chunk_size

\* C2: the chunks, concatenated in order, are the text once whitespace is
\* removed from both: nothing is lost, duplicated or reordered.
C2_ContentPreserved ==
    ChunkDone => NoWhiteSpace(Concat(chunks)) = NoWhiteSpace(text)

\* a text cut at a line or paragraph break, with whitespace trimmed away
C2_Witness ==
    /\ pc = "chunked_msa"
    /\ Len(text) > max_chunk_size
    /\ SplitAt(text, max_chunk_size) < max_chunk_size
    /\ Len(SplitPoints(text, max_chunk_size, section_patterns_msa)) = 2
    /\ Len(chunks) >= 2
    /\ Concat(chunks) # text
    /\ NoWhiteSpace(Concat(chunks)) = NoWhiteSpace(text)

\* C3 as stated: for every input text, every returned chunk is non-empty,
\* also after trimming.
C3_OnlyNonEmptyChunks ==
    ChunkDone => \A n \in 1..Len(chunks) : Strip(chunks[n]) # <<>>

\* C3 as amended: for every text longer than max_chunk_size, every returned
\* chunk is non-empty, also after trimming (a text that fits is returned as
\* it is, empty or blank included).
C3_NonEmptyChunksWhenSplit ==
    (ChunkDone /\ Len(text) > max_chunk_size) =>
        \A n \in 1..Len(chunks) : Strip(chunks[n]) # <<>>

\* a split run in which the final filter dropped an empty chunk
C3_Witness ==
    /\ pc = "chunked_msa"
    /\ Len(text) > max_chunk_size
    /\ chunks # <<>>
    /\ Len(chunks) < Len(FinalChunks(SpanChunks(text,
            SplitPoints(text, max_chunk_size, section_patterns_msa),
            1, max_chunk_size), max_chunk_size))

\* C4: a text that fits in max_chunk_size is returned as the one chunk
\* [text], untrimmed.
C4_FittingTextReturnedAsIs ==
    (ChunkDone /\ Len(text) <= max_chunk_size) => chunks = <<text>>

C4_Witness ==
    /\ ChunkDone
    /\ Len(text) <= max_chunk_size
    /\ Strip(text) # text
    /\ Strip(text) # <<>>
    /\ chunks = <<text>>

(***************************************************************************)
(* Properties of the merger (SpecMerge, SpecFold).                         *)
(***************************************************************************)
NonNullAt(d, key) == key \in Keys(d) /\ d.fields[key] # Null

BothDictsAt(b, u, key) ==
    /\ key \in Keys(b) /\ IsDict(b.fields[key])
    /\ key \in Keys(u) /\ IsDict(u.fields[key])

\* every key that is non-null in b or in u is non-null in m, at every depth
\* the merge recurses into
RECURSIVE PreservesNonNull(_, _, _)
PreservesNonNull(b, u, m) ==
    /\ m # Raise
    /\ IsDict(m)
    /\ \A key \in Keys(b) \cup Keys(u) :
          /\ (NonNullAt(b, key) \/ NonNullAt(u, key)) => NonNullAt(m, key)
          /\ BothDictsAt(b, u, key) =>
                /\ key \in Keys(m)
                /\ PreservesNonNull(b.fields[key], u.fields[key], m.fields[key])

\* C5: every field that is non-null in base or in update is non-null in
\* merge(base, update), at every nesting depth the merge reaches.
C5_MergePreservesNonNull ==
    pc = "merged" => PreservesNonNull(base, update, merged)

\* a non-null, non-empty scalar: a non-blank string, a number or a boolean
GenuineScalar(v) ==
    CASE v.kind = "str"  -> Strip(v.s) # <<>>
      [] v.kind = "num"  -> TRUE
      [] v.kind = "bool" -> TRUE
      [] OTHER -> FALSE

\* a non-null, non-empty value
Genuine(v) ==
    CASE v.kind = "list" -> v.items # <<>>
      [] v.kind = "dict" -> Keys(v) # {}
      [] OTHER -> GenuineScalar(v)

\* the genuine value v is still there in the merged value out
RECURSIVE PresentIn(_, _)
PresentIn(v, out) ==
    CASE v.kind = "list" ->
            /\ IsList(out)
            /\ \A n \in 1..Len(v.items) : PyIn(v.items[n], out.items)
      [] v.kind = "dict" ->
            /\ IsDict(out)
            /\ \A key \in Keys(v) :
                  Genuine(v.fields[key]) =>
                      /\ key \in Keys(out)
                      /\ PresentIn(v.fields[key], out.fields[key])
      [] OTHER -> PyEq(v, out)

RECURSIVE FirstWinsNothingLost(_, _, _)
FirstWinsNothingLost(b, u, m) ==
    /\ m # Raise
    /\ IsDict(m)
    /\ \A key \in Keys(b) \cup Keys(u) :
          /\ key \in Keys(m)
          /\ IF /\ key \in Keys(b) /\ GenuineScalar(b.fields[key])
                /\ key \in Keys(u) /\ GenuineScalar(u.fields[key])
             THEN PyEq(m.fields[key], b.fields[key])
             ELSE IF BothDictsAt(b, u, key)
             THEN FirstWinsNothingLost(b.fields[key], u.fields[key], m.fields[key])
             ELSE /\ (key \in Keys(b) /\ Genuine(b.fields[key])) =>
                        PresentIn(b.fields[key], m.fields[key])
                  /\ (key \in Keys(u) /\ Genuine(u.fields[key])) =>
                        PresentIn(u.fields[key], m.fields[key])

\* C6: when base and update both hold a non-null, non-empty scalar for a
\* key, the merge keeps base's; in every other case a genuine value of
\* either input is still present in the output.
C6_FirstWinsNothingLost ==
    pc = "merged" => FirstWinsNothingLost(base, update, merged)

MergeOrRaise(x, y) ==
    IF x = Raise \/ y = Raise THEN Raise ELSE _deep_merge(x, y)

SameOutcome(x, y) ==
    IF x = Raise \/ y = Raise THEN x = y ELSE PyEq(x, y)

\* C7: the fold merge(merge(a, b), c) equals merge(a, merge(b, c)).
C7_MergeAssociative ==
    (pc = "folded" /\ Len(chunk_results) = 3) =>
        SameOutcome(merged,
                    MergeOrRaise(chunk_results[1],
                                 MergeOrRaise(chunk_results[2], chunk_results[3])))

RECURSIVE NoNullFields(_)
NoNullFields(v) ==
    CASE v.kind = "null" -> FALSE
      [] v.kind = "list" -> \A n \in 1..Len(v.items) : NoNullFields(v.items[n])
      [] v.kind = "dict" -> \A key \in Keys(v) : NoNullFields(v.fields[key])
      [] OTHER -> TRUE

\* C8: merge(X, X) == X for every record X with no null fields.
C8_MergeIdempotent ==
    (pc = "merged" /\ base = update /\ NoNullFields(base)) =>
        (merged # Raise /\ PyEq(merged, base))

\* X holds a list of two equal nested objects
C8_Witness ==
    /\ pc = "merged"
    /\ base = update
    /\ NoNullFields(base)
    /\ "k" \in Keys(base)
    /\ IsList(base.fields["k"])
    /\ Len(base.fields["k"].items) >= 2
    /\ base.fields["k"].items[1] = base.fields["k"].items[2]
    /\ IsDict(base.fields["k"].items[1])
    /\ merged = base

\* C27: _deep_merge is total: it returns a record for every pair of
\* records, of whatever kinds the values under a shared key are.
C27_MergeTotal ==
    pc = "merged" => merged # Raise

\* C28: _deep_merge leaves both of its inputs as they were, at every nesting
\* depth: after the call base and update hold what they held before it.
C28_MergeLeavesInputs ==
    [][DeepMergeCall => (base' = base /\ update' = update)]_vars

\* base and update both hold a list inside the object under "k", the update's
\* list brings a new item, and the merged record holds the longer list
C28_Witness ==
    /\ pc = "merged"
    /\ merged # Raise
    /\ "k" \in Keys(base) \cap Keys(update)
    /\ IsDict(base.fields["k"]) /\ IsDict(update.fields["k"])
    /\ "j" \in Keys(base.fields["k"]) \cap Keys(update.fields["k"])
    /\ IsList(base.fields["k"].fields["j"])
    /\ IsList(update.fields["k"].fields["j"])
    /\ Len(merged.fields["k"].fields["j"].items)
          > Len(base.fields["k"].fields["j"].items)
    /\ "m" \in Keys(update) \ Keys(base)

(***************************************************************************)
(* Properties of parse's multi-chunk path (SpecParse).                     *)
(***************************************************************************)
ParseDone == pc \in {"returned", "failed"}
MultiChunkPath == i >= 1

\* the records of the answers that were extracted, in order
RECURSIVE Extracted(_)
Extracted(rs) ==
    IF rs = <<>> THEN <<>>
    ELSE (IF Head(rs).outcome = "json" THEN <<Head(rs).data>> ELSE <<>>)
         \o Extracted(Tail(rs))

\* C9: in the multi-chunk path a chunk whose extraction fails does not end
\* the run: every chunk is sent to the collaborator, the merge gets the
\* extracted records only, and parse fails when no chunk was extracted.
C9_ChunkFailureIsolated ==
    (ParseDone /\ MultiChunkPath) =>
        /\ Len(calls) = Len(chunks)
        /\ \A n \in 1..Len(calls) :
              calls[n].chunk_number = n /\ calls[n].document = chunks[n]
        /\ Len(responses) = Len(chunks)
        /\ all_results = Extracted(responses)
        /\ chunk_results = all_results
        /\ (\A n \in 1..Len(responses) : responses[n].outcome # "json") =>
              /\ pc = "failed"
              /\ result = Error("ValueError: Failed to parse any chunks")

\* a run that returned although a chunk before an extracted one failed
C9_Witness ==
    /\ pc = "returned"
    /\ MultiChunkPath
    /\ \E m, n \in 1..Len(responses) :
          /\ m < n
          /\ responses[m].outcome # "json"
          /\ responses[n].outcome = "json"

ResultKeys == UNION {Keys(all_results[n]) : n \in 1..Len(all_results)}

Holders(key) ==
    {n \in 1..Len(all_results) :
        key \in Keys(all_results[n]) /\ GenuineScalar(all_results[n].fields[key])}

\* C10: one collaborator call per chunk, one after another in ascending
\* chunk index, and the merged record takes for each key the genuine scalar
\* of the earliest extracted chunk that holds one.
C10_SequentialFirstChunkWins ==
    /\ Cardinality(in_flight) <= 1
    /\ MultiChunkPath => \A n \in 1..Len(calls) : calls[n].chunk_number = n
    /\ (pc = "returned" /\ MultiChunkPath) =>
          /\ Len(calls) = Len(chunks)
          /\ \A key \in ResultKeys :
                Holders(key) # {} =>
                    /\ key \in Keys(result)
                    /\ PyEq(result.fields[key],
                            all_results[SetMin(Holders(key))].fields[key])

\* the record parse hands to _validate_structure: the extracted record of
\* the single request, or the merge of the extracted chunk records
ValidatedRecord ==
    IF MultiChunkPath
    THEN IF all_results = <<>> \/ _merge_chunk_results(all_results) = Raise
         THEN Raise
         ELSE _fix_enum_values(_merge_chunk_results(all_results))
    ELSE IF Extracted(responses) = <<>> THEN Raise
         ELSE _fix_enum_values(Extracted(responses)[1])

\* C13: structural validation is not fatal: whenever parse has a record to
\* validate, whatever fields of it are missing, null or of an unexpected
\* kind, parse returns that record.
C13_ValidationNonFatal ==
    (ParseDone /\ ValidatedRecord # Raise) =>
        (pc = "returned" /\ result = ValidatedRecord)

C12_RequestsUnderCeiling ==
    \A n \in 1..Len(calls) :
        RequestSize(calls[n], prompt_length) <= safe_total_request_size

AssessDone == pc = "assessed"

\* the record's value for the n-th tracked clause: Raise stands for a key
\* that is not in the record
TrackedField(n) ==
    IF /\ IsDict(MsaContent(msa_data))
       /\ clause_mapping[n][2] \in Keys(MsaContent(msa_data))
    THEN MsaContent(msa_data).fields[clause_mapping[n][2]]
    ELSE Raise

Tracked == 1..Len(clause_mapping)
FieldEmptyOrAbsent(n) == TrackedField(n) \in {Raise, Null, EmptyDict}
FieldHasData(n) == ~FieldEmptyOrAbsent(n)

\* the positions of the assessments made for the n-th tracked clause
AssessmentsFor(n) ==
    { k \in 1..Len(clause_assessments) :
        clause_assessments[k].clause_name = clause_mapping[n][1] }

CallsFor(n) ==
    { k \in 1..Len(calls) : calls[k].clause_name = clause_mapping[n][1] }

\* C14: a tracked clause whose field is null, {} or not in the record gets
\* the assessment score 0.0, risk HIGH, status "missing", and no
\* collaborator call is made for it.
C14_EmptyClauseAssessedMissing ==
    AssessDone =>
        \A n \in Tracked :
            FieldEmptyOrAbsent(n) =>
                /\ CallsFor(n) = {}
                /\ \E k \in AssessmentsFor(n) :
                      /\ result.clause_assessments[k].compliance_score = 0
                      /\ result.clause_assessments[k].risk_level = "HIGH"
                      /\ result.clause_assessments[k].status = "missing"

\* C15: no assessment of a clause with data has the score 0.0, whatever the
\* collaborator answered; an assessment with the score 0.0 is the
\* synthesized missing assessment.
C15_PresentClauseNeverZero ==
    \A n \in Tracked :
        \A k \in AssessmentsFor(n) :
            /\ FieldHasData(n) => clause_assessments[k].compliance_score # 0
            /\ clause_assessments[k].compliance_score = 0 =>
                    clause_assessments[k] = MissingAssessment(clause_mapping[n][1])

\* a run in which the collaborator scored a present clause 0, left the
\* score out for another and raised for a third
C15_Witness ==
    /\ AssessDone
    /\ \E k \in 1..Len(responses) :
          /\ responses[k].outcome = "json"
          /\ responses[k].has_score
          /\ responses[k].score = 0
    /\ \E k \in 1..Len(responses) :
          responses[k].outcome = "json" /\ ~responses[k].has_score
    /\ \E k \in 1..Len(responses) : responses[k].outcome = "exception"
    /\ \E k \in 1..Len(clause_assessments) :
          clause_assessments[k].compliance_score = 5

\* the severity of the most severe clause assessment
WorstRisk ==
    SetMin({ risk_scores(clause_assessments[k].risk_level) :
                k \in 1..Len(clause_assessments) })

\* C16: the overall risk level is CRITICAL when the most severe clause
\* assessment is CRITICAL and HIGH when it is HIGH, whatever the score.
C16_WorstClauseEscalates ==
    (AssessDone /\ clause_assessments # <<>>) =>
        /\ WorstRisk = risk_scores("CRITICAL") =>
                result.overall_risk_level = "CRITICAL"
        /\ WorstRisk = risk_scores("HIGH") =>
                result.overall_risk_level = "HIGH"

\* a present clause whose task has not started yet
LaterPresentClause ==
    \E k \in (i + 1)..Len(clauses) : ~ClauseEmpty(clauses[k].clause_data)

\* C17: the clause calls are issued concurrently: while the call of one
\* clause is outstanding the call of a later present clause can be issued;
\* and the aggregation starts only once every task has ended.
C17_ClauseCallsConcurrent ==
    /\ (in_flight # {} /\ LaterPresentClause) => ENABLED InvokeClause
    /\ AssessDone =>
            in_flight = {} /\ Len(clause_assessments) = Len(clauses)

\* the number of tracked clause fields that hold data
PresentCount == Cardinality({ n \in Tracked : FieldHasData(n) })

\* the record of the example: liability_indemnification is null, the four
\* other clause fields hold data
OneNullRecord ==
    Dict([k \in ClausePaths |->
            IF k = "liability_indemnification" THEN Null ELSE ClauseData])

\* C19: structure_completeness is exactly 100 * present_count / 5; the
\* record with liability_indemnification null and four clauses present has
\* missing_clauses_count 1 and structure_completeness 80.
C19_StructureCompleteness ==
    AssessDone =>
        /\ result.structure_completeness * Cardinality(CLAUSE_PROMPTS)
                = 100 * PresentCount
        /\ msa_data = OneNullRecord =>
                /\ result.missing_clauses_count = 1
                /\ result.structure_completeness = 80

\* the example's run, and the collaborator answered 0 with details.status
\* "missing" for one of the present clauses
C19_Witness ==
    /\ AssessDone
    /\ msa_data = OneNullRecord
    /\ result.structure_completeness = 80
    /\ \E k \in 1..Len(responses) :
          responses[k].outcome = "json" /\ responses[k].status = "missing"

\* C20: a run produces exactly one assessment for each of the five tracked
\* clause types, whether its field holds data, is null, is empty or is not
\* in the record.
C20_OneAssessmentPerClause ==
    AssessDone =>
        /\ Len(result.clause_assessments) = Cardinality(CLAUSE_PROMPTS)
        /\ \A n \in Tracked : Cardinality(AssessmentsFor(n)) = 1

(***************************************************************************)
(* Properties of the assessor under any answer (SpecAssessAnyAnswer).      *)
(***************************************************************************)
\* C21: every clause assessment has a compliance_score within [0, 100],
\* whatever numeric score the collaborator's JSON carries (negative or
\* above 100).
C21_ScoreWithinRange ==
    \A k \in 1..Len(clause_assessments) :
        /\ clause_assessments[k].compliance_score >= 0
        /\ clause_assessments[k].compliance_score <= 100

\* the assessment made from the k-th collaborator call
AssessmentOfCall(k) ==
    clause_assessments[
        CHOOSE n \in 1..Len(clause_assessments) :
            clause_assessments[n].clause_name = calls[k].clause_name]

\* the calls whose task has ended
AnsweredCalls == 1..Len(responses)

\* C22: a collaborator failure on one clause (an exception, a response
\* without JSON, invalid JSON, a field of the wrong type) gives that clause
\* the neutral default (50.0, MEDIUM, details.error); the run goes on to its
\* result, and every other answered clause keeps the score and the level of
\* its own answer.
C22_FailureGivesNeutralDefault ==
    /\ \A k \in AnsweredCalls :
          responses[k] \in FailedAnswers =>
              /\ AssessmentOfCall(k).compliance_score = 50
              /\ AssessmentOfCall(k).risk_level = "MEDIUM"
              /\ AssessmentOfCall(k).status = "error"
    /\ \A k \in AnsweredCalls :
          (responses[k] \in ScoredAnswers /\ responses[k].score # 0) =>
              /\ AssessmentOfCall(k).compliance_score = responses[k].score
              /\ AssessmentOfCall(k).risk_level = responses[k].risk_level
    /\ (pc = "gather" /\ i > Len(clauses)) => ENABLED Aggregate
    /\ AssessDone => Len(result.clause_assessments) = Len(clauses)

\* a finished run of three clauses: invalid JSON for one, a wrong-typed
\* field for another, and the third scored 100
C22_Witness ==
    /\ AssessDone
    /\ \E k \in AnsweredCalls : responses[k] = NoAnswer("invalid_json")
    /\ \E k \in AnsweredCalls : responses[k] = NoAnswer("wrong_type")
    /\ \E k \in AnsweredCalls :
          /\ responses[k] = JsonAnswer(TRUE, 100, TRUE, "LOW", "")
          /\ AssessmentOfCall(k).compliance_score = 100

\* the number of tracked clauses whose field is null, {} or not in the record
MissingClauses == Cardinality({ n \in Tracked : FieldEmptyOrAbsent(n) })

\* every present clause scored within (0, 100]
PresentScoresInRange ==
    \A k \in 1..Len(clause_assessments) :
        clause_assessments[k].status # "missing" =>
            /\ clause_assessments[k].compliance_score > 0
            /\ clause_assessments[k].compliance_score <= 100

\* the assessments of an MSA with all five clauses present, for the scores
\* 5.0, 50.0 and 100.0
PresentScores == { 5, 50, 100 }
AllPresentAssessments ==
    { [n \in 1..Len(clause_mapping) |->
          [clause_name |-> clause_mapping[n][1], compliance_score |-> v[n],
           risk_level |-> "LOW", status |-> ""]] :
      v \in [1..Len(clause_mapping) -> PresentScores] }

\* overall_score of the result is strictly lower than that of assessments
ScoresLowerThan(assessments) ==
    result.overall_score_numerator * 10 * ScoreCount(assessments)
        < OverallScoreNumerator(assessments) * result.overall_score_denominator

MatchesOf(idx) ==
    { k \in 1..Len(matches) : matches[k].ground_truth = idx }

\* C18: no ground-truth pair is matched twice: each ground-truth index is
\* the match of at most one generated pair, also when the ground-truth list
\* holds identical pairs.
C18_NoGroundTruthMatchedTwice ==
    \A idx \in 0..(Len(ground_truth_pairs) - 1) :
        Cardinality(MatchesOf(idx)) <= 1

\* C29: the results never outnumber the ground-truth pairs, match_rate lies
\* within [0, 1], and matched_pairs + unmatched_ground_truth equals
\* total_ground_truth_pairs.
C29_SummaryConsistent ==
    pc = "evaluated" =>
        /\ Len(matches) <= Len(ground_truth_pairs)
        /\ result.match_rate[1] >= 0
        /\ result.match_rate[1] <= result.match_rate[2]
        /\ result.matched_pairs + result.unmatched_ground_truth
                = result.total_ground_truth_pairs

(***************************************************************************)
(* Properties of the evaluator on two and two pairs (SpecEvaluateExample). *)
(***************************************************************************)
\* the keywords of the two answers an evaluation result compares
ReferenceKeywords(m) ==
    extract_keywords(ground_truth_pairs[m.ground_truth + 1].answer)
AnswerKeywords(m) ==
    extract_keywords(generated_pairs[m.generated + 1].answer)

\* C23 as stated: matched is the intersection of the two keyword sets and
\* missing is the keywords of A (the reference) that are not in B, also when
\* exactly one of the two keyword sets is empty.
C23_MissingIsDifference ==
    \A k \in 1..Len(matches) :
        /\ matches[k].matched_keywords
              = ReferenceKeywords(matches[k]) \cap AnswerKeywords(matches[k])
        /\ matches[k].missing_keywords
              = ReferenceKeywords(matches[k]) \ AnswerKeywords(matches[k])

\* C23: matched is the intersection of the two keyword sets in every case;
\* missing is the keywords of A that are not in B, except when A has no
\* keywords and B has some: then missing is B's keywords (the non-empty set).
C23_MissingIsDifferenceOrNonEmptySet ==
    \A k \in 1..Len(matches) :
        /\ matches[k].matched_keywords
              = ReferenceKeywords(matches[k]) \cap AnswerKeywords(matches[k])
        /\ matches[k].missing_keywords
              = IF /\ ReferenceKeywords(matches[k]) = {}
                   /\ AnswerKeywords(matches[k]) # {}
                THEN AnswerKeywords(matches[k])
                ELSE ReferenceKeywords(matches[k]) \ AnswerKeywords(matches[k])

\* two results in one run: a reference without keywords against an answer
\* with keywords, and two answers that share one keyword and differ in another
C23_Witness ==
    /\ \E k \in 1..Len(matches) :
          /\ ReferenceKeywords(matches[k]) = {}
          /\ matches[k].missing_keywords = AnswerKeywords(matches[k])
          /\ matches[k].missing_keywords # {}
    /\ \E k \in 1..Len(matches) :
          /\ matches[k].matched_keywords # {}
          /\ matches[k].missing_keywords # {}
          /\ matches[k].missing_keywords # ReferenceKeywords(matches[k])

\* the similarity of the n-th generated question and the m-th ground-truth
\* question
QuestionSimilarity(n, m) ==
    Similarity(generated_pairs[n].question, ground_truth_pairs[m].question)

\* x >= y for two fractions
AtLeast(x, y) == ~Greater(y, x)

TwoAndTwo ==
    pc = "evaluated" /\ Len(ground_truth_pairs) = 2 /\ Len(generated_pairs) = 2

\* match_rate == 1.0
FullMatchRate == result.match_rate[1] = result.match_rate[2]

\* C24 as stated: two ground-truth pairs and two generated pairs, each
\* generated question with a similarity of at least 0.3 (0.3 included) with
\* a different ground-truth question, give two results and match_rate 1.0.
C24_TwoMatchesFromThreshold ==
    (/\ TwoAndTwo
     /\ \E a \in 1..2 :
          /\ AtLeast(QuestionSimilarity(1, a), <<3, 10>>)
          /\ AtLeast(QuestionSimilarity(2, 3 - a), <<3, 10>>))
    => (Len(matches) = 2 /\ FullMatchRate)

\* the ground-truth pair the first generated pair is matched with when it is
\* similar enough: the more similar one, the first one on a tie
FirstChoice ==
    IF Greater(QuestionSimilarity(1, 2), QuestionSimilarity(1, 1)) THEN 2 ELSE 1

\* C24: two ground-truth pairs and two generated pairs give two results and
\* match_rate 1.0 when the first generated question has a similarity
\* strictly above 0.3 with the ground-truth question it is most similar to
\* and the second generated question has one strictly above 0.3 with the
\* other ground-truth question; a generated pair whose similarity with every
\* ground-truth question is at most 0.3 (exactly 0.3 included) is not matched.
C24_TwoMatchesAboveThreshold ==
    TwoAndTwo =>
        /\ (/\ Greater(QuestionSimilarity(1, FirstChoice), <<3, 10>>)
            /\ Greater(QuestionSimilarity(2, 3 - FirstChoice), <<3, 10>>))
           => (Len(matches) = 2 /\ FullMatchRate)
        /\ \A n \in 1..2 :
              (\A m \in 1..2 : ~Greater(QuestionSimilarity(n, m), <<3, 10>>))
              => (\A k \in 1..Len(matches) : matches[k].generated # n - 1)

\* a run with two results in which the first generated pair took the second
\* ground-truth pair
C24_Witness ==
    /\ TwoAndTwo
    /\ ground_truth_pairs[1] # ground_truth_pairs[2]
    /\ Greater(QuestionSimilarity(1, FirstChoice), <<3, 10>>)
    /\ Greater(QuestionSimilarity(2, 3 - FirstChoice), <<3, 10>>)
    /\ FirstChoice = 2
    /\ Len(matches) = 2
    /\ FullMatchRate

\* a run whose first generated question has a similarity of exactly 0.3 with
\* the first ground-truth question and is not matched
ExactThresholdRun ==
    /\ TwoAndTwo
    /\ QuestionSimilarity(1, 1) = <<3, 10>>
    /\ \A k \in 1..Len(matches) : matches[k].generated # 0
    /\ Greater(QuestionSimilarity(2, 2), <<3, 10>>)
    /\ Len(matches) = 1

(***************************************************************************)
(* Properties of the Q&A parser (SpecParseMarkdown).                       *)
(***************************************************************************)
\* the most recent section header before lines[idx]
RECURSIVE SectionBefore(_, _)
SectionBefore(lines, idx) ==
    IF idx <= 1 THEN NoSection
    ELSE IF lines[idx - 1].kind = "section" THEN lines[idx - 1].content
    ELSE SectionBefore(lines, idx - 1)

\* one pair for every question line that an answer line follows at once, in
\* document order
RECURSIVE PairsOfAdjacentLines(_, _)
PairsOfAdjacentLines(lines, idx) ==
    IF idx >= Len(lines) THEN <<>>
    ELSE (IF lines[idx].kind = "question" /\ lines[idx + 1].kind = "answer"
          THEN << QAPair(lines[idx].content, lines[idx + 1].content,
                         SectionBefore(lines, idx)) >>
          ELSE <<>>)
         \o PairsOfAdjacentLines(lines, idx + 1)

\* C30: parse_markdown returns, in document order, exactly one QAPair for
\* every Q line that is immediately followed by an A line, whatever precedes
\* it (a Q line without an answer included), each tagged with the most
\* recent section header.
C30_OnePairPerAnsweredQuestion ==
    pc = "parsed_markdown" =>
        ground_truth_pairs = PairsOfAdjacentLines(text, 1)

====
